---- MODULE Spec2Model ----
(***************************************************************************)
(* DER-VET: the microgrid point of interconnection (MicrogridPOI), the     *)
(* combined heat and power technology (CHP) and the result merge, as state *)
(* machines.  Convex expressions are linear forms over decision variables, *)
(* constraints are NonPos / Zero atoms over such forms, data frames are    *)
(* records of columns.                                                     *)
(***************************************************************************)
EXTENDS Integers, Sequences, FiniteSets, TLC

VARIABLES der_list, active_ders, site_load, variables_dict, ret

vars == <<der_list, active_ders, site_load, variables_dict, ret>>

\* ------------------------------------------------------------------ bounds
\* longest fleet of the thermal and sizing specifications
MaxDers == 2
\* number of time steps of an optimization window / of the result index
WindowSize == 2
\* largest value a decision variable takes in an enumerated assignment
MaxVal == 2
\* last year of the deferral table (the years are 1..MaxYear)
MaxYear == 3
\* largest min_years of the Deferral value stream
MaxMinYears == 2
\* set_size calls that may add constraints to one storage asset
MaxSetSizeCalls == 1
\* largest max_steam_ratio and electric_heat_ratio of a CHP
MaxRatio == 2
\* optimization windows a CHP initializes variables for
MaxWindows == 2

Steps == 1..WindowSize

\* ------------------------------------------------------- convex expressions
\* A series is a function over the time steps.  Series(k) are distinct loads.
Series(k) == [t \in Steps |-> (k + t) % 3]
ZeroSeries == [t \in Steps |-> 0]

\* An optional attribute: missing from the object, None, or a series.
Absent == [st |-> "absent", val |-> <<>>]
NoneV == [st |-> "none", val |-> <<>>]
Some(s) == [st |-> "series", val |-> s]

\* A linear form: a coefficient for every variable of its expression tree and
\* a constant per time step.
ConstExpr(s) == [coef |-> <<>>, const |-> s]
VarExpr(v) == [coef |-> (v :> 1), const |-> ZeroSeries]
CoefOf(e, v) == IF v \in DOMAIN e.coef THEN e.coef[v] ELSE 0
ExprAdd(e1, e2) ==
    [coef |-> [v \in (DOMAIN e1.coef) \cup (DOMAIN e2.coef) |->
                  CoefOf(e1, v) + CoefOf(e2, v)],
     const |-> [t \in Steps |-> e1.const[t] + e2.const[t]]]
ExprScale(k, e) ==
    [coef |-> [v \in DOMAIN e.coef |-> k * e.coef[v]],
     const |-> [t \in Steps |-> k * e.const[t]]]
ExprNeg(e) == ExprScale(-1, e)
ExprSub(e1, e2) == ExprAdd(e1, ExprNeg(e2))
\* cvx Expression.variables(): the variables of the expression tree
Variables(e) == DOMAIN e.coef

RECURSIVE SumOver(_, _)
SumOver(S, f) ==
    IF S = {} THEN 0
    ELSE LET v == CHOOSE w \in S : TRUE
         IN  f[v] + SumOver(S \ {v}, f)

\* value of a form at time step t under a point assignment a (variable -> value)
Eval(e, a, t) ==
    SumOver(DOMAIN e.coef, [v \in DOMAIN e.coef |-> e.coef[v] * a[v]]) + e.const[t]

\* cvx.NonPos(e): e <= 0 elementwise;  cvx.Zero(e): e == 0 elementwise
NonPos(e) == [kind |-> "NonPos", expr |-> e]
Zero(e) == [kind |-> "Zero", expr |-> e]
Holds(c, a, t) ==
    IF c.kind = "NonPos" THEN Eval(c.expr, a, t) <= 0 ELSE Eval(c.expr, a, t) = 0

Assignments(V) == [V -> 0..MaxVal]

Range(s) == {s[i] : i \in DOMAIN s}

\* ------------------------------------------------------------- thermal POI
Channels == {"steam", "hotwater", "cooling"}

NoAttrs == [c \in Channels |-> Absent]

\* The technologies of the thermal specification: what MicrogridPOI reads of
\* them (technology_type, is_hot, is_cold, the optional site load attributes).
ChpDer(s, h) ==
    [tag |-> "CHP", technology_type |-> "Generator", is_hot |-> TRUE, is_cold |-> FALSE,
     attrs |-> [c \in Channels |-> CASE c = "steam" -> s
                                     [] c = "hotwater" -> h
                                     [] OTHER -> Absent]]
ChillerDer(c) ==
    [tag |-> "Chiller", technology_type |-> "Generator", is_hot |-> FALSE, is_cold |-> TRUE,
     attrs |-> [x \in Channels |-> IF x = "cooling" THEN c ELSE Absent]]
BatteryDer ==
    [tag |-> "Battery", technology_type |-> "Energy Storage System", is_hot |-> FALSE,
     is_cold |-> FALSE, attrs |-> NoAttrs]
EvDer ==
    [tag |-> "ElectricVehicle1", technology_type |-> "Electric Vehicle", is_hot |-> FALSE,
     is_cold |-> FALSE, attrs |-> NoAttrs]

ThermalCatalog ==
    {ChpDer(s, h) : s \in {NoneV, Some(Series(1))}, h \in {NoneV, Some(Series(2))}}
    \cup {ChillerDer(c) : c \in {NoneV, Some(Series(0))}}
    \cup {BatteryDer, EvDer}

Fleets(Catalog) == UNION {[1..n -> Catalog] : n \in 1..MaxDers}

\* MicrogridPOI.__init__, the loop over active_ders: every technology
\* overwrites the three attributes, with None when it lacks the attribute, so
\* after k technologies an attribute holds what the k-th one gave; no
\* iteration leaves it unset.
SiteLoadAfter(ders, active, k, c) ==
    IF k = 0 THEN [st |-> "unset", val |-> <<>>]
    ELSE LET a == ders[active[k]].attrs[c]
         IN  IF a.st = "absent" THEN NoneV ELSE a

InitSiteLoad(ders, active) ==
    [c \in Channels |-> SiteLoadAfter(ders, active, Len(active), c)]

\* the variable a technology exposes for a channel (get_steam_recovered, ...)
RecoveredVar(i, c) == <<i, c>>

\* what super().optimization_problem returns: the objective expression and the
\* base constraint list
BaseObjectives == {[poi |-> 0], [poi |-> 1]}
BaseConstraint == NonPos(ExprSub(VarExpr(<<0, "power_out">>), ConstExpr(Series(2))))
BaseConstraintLists == {<<>>, <<BaseConstraint>>}

\* the supply expressions handed to optimization_problem: constants, or sums
\* that hold a decision variable
SupplyExprs(c) ==
    {ConstExpr(Series(2)),
     VarExpr(RecoveredVar(1, c)),
     ExprAdd(VarExpr(RecoveredVar(1, c)), VarExpr(RecoveredVar(2, c)))}

\* cvx.NonPos(-supply + load)
BalanceConstraint(supply, load) == NonPos(ExprAdd(ExprNeg(supply), ConstExpr(load)))

\* AddBalance without the `if X_in.variables():` test
AddBalanceAnySupply(constraint_list, load, supply) ==
    IF load.st # "none"
    THEN constraint_list \o <<BalanceConstraint(supply, load.val)>>
    ELSE constraint_list

\* one `if self.site_X_load is not None: if X_in.variables(): constraint_list += [...]`
AddBalance(constraint_list, load, supply) ==
    IF load.st # "none" /\ Variables(supply) # {}
    THEN constraint_list \o <<BalanceConstraint(supply, load.val)>>
    ELSE constraint_list

\* MicrogridPOI.optimization_problem
OptimizationProblemResult(obj, base, steam_in, hotwater_in, cold_in) ==
    LET c1 == AddBalance(base, site_load["steam"], steam_in)
        c2 == AddBalance(c1, site_load["hotwater"], hotwater_in)
        c3 == AddBalance(c2, site_load["cooling"], cold_in)
    IN  [obj_expression |-> obj, constraint_list |-> c3]

OptimizationProblem ==
    /\ ret.op = "none"
    /\ \E obj \in BaseObjectives, base \in BaseConstraintLists,
          steam_in \in SupplyExprs("steam"), hotwater_in \in SupplyExprs("hotwater"),
          cold_in \in SupplyExprs("cooling") :
         ret' = [op |-> "optimization_problem",
                 args |-> [obj |-> obj, base |-> base,
                           supply |-> [c \in Channels |->
                                          CASE c = "steam" -> steam_in
                                            [] c = "hotwater" -> hotwater_in
                                            [] OTHER -> cold_in]],
                 out |-> OptimizationProblemResult(obj, base, steam_in, hotwater_in,
                                                   cold_in)]
    /\ UNCHANGED <<der_list, active_ders, site_load, variables_dict>>

\* nothing is pending: the caller has taken the last result
NoRet == [op |-> "none"]

\* the caller takes the result of the last call
Return ==
    /\ ret.op # "none"
    /\ ret' = NoRet
    /\ UNCHANGED <<der_list, active_ders, site_load, variables_dict>>

\* what super().get_state_of_system returns for the load and the three thermal
\* aggregates: zero, or a sum the base class has already started
BaseAggregates ==
    {[load_sum |-> ConstExpr(Series(1)), agg |-> [c \in Channels |-> ConstExpr(ZeroSeries)]],
     [load_sum |-> ConstExpr(Series(1)), agg |-> [c \in Channels |-> VarExpr(<<0, c>>)]]}

IsNone(x) == x.st = "none"

Warning(i, source) == [der |-> i, source |-> source]

AddRecovered(st, i, c) ==
    [st EXCEPT !.agg[c] = ExprAdd(@, VarExpr(RecoveredVar(i, c)))]

\* HotStep warning as soon as one of the two heat loads is None
HotStepEitherNone(st, i) ==
    IF ~der_list[i].is_hot THEN st
    ELSE LET s0 == IF IsNone(site_load["steam"]) \/ IsNone(site_load["hotwater"])
                   THEN [st EXCEPT !.warnings = Append(@, Warning(i, "heat"))] ELSE st
             s1 == IF ~IsNone(site_load["steam"])
                   THEN AddRecovered(s0, i, "steam") ELSE s0
         IN  IF ~IsNone(site_load["hotwater"])
             THEN AddRecovered(s1, i, "hotwater") ELSE s1

\* `if der_inst.is_hot:` of get_state_of_system, for the technology at index i
HotStep(st, i) ==
    IF ~der_list[i].is_hot THEN st
    ELSE IF IsNone(site_load["steam"]) /\ IsNone(site_load["hotwater"])
         THEN [st EXCEPT !.warnings = Append(@, Warning(i, "heat"))]
         ELSE LET s1 == IF ~IsNone(site_load["steam"])
                        THEN AddRecovered(st, i, "steam") ELSE st
              IN  IF ~IsNone(site_load["hotwater"])
                  THEN AddRecovered(s1, i, "hotwater") ELSE s1

\* `if der_inst.is_cold:` of get_state_of_system
ColdStep(st, i) ==
    IF ~der_list[i].is_cold THEN st
    ELSE IF IsNone(site_load["cooling"])
         THEN [st EXCEPT !.warnings = Append(@, Warning(i, "cold"))]
         ELSE AddRecovered(st, i, "cooling")

\* `if der_inst.technology_type == 'Electric Vehicle': load_sum += get_charge`
EvStep(st, i) ==
    IF der_list[i].technology_type = "Electric Vehicle"
    THEN [st EXCEPT !.load_sum = ExprAdd(@, VarExpr(<<i, "ch">>))]
    ELSE st

\* the loop of get_state_of_system over the first k active technologies
RECURSIVE StateOfSystem(_, _)
StateOfSystem(base, k) ==
    IF k = 0 THEN [load_sum |-> base.load_sum, agg |-> base.agg, warnings |-> <<>>]
    ELSE ColdStep(HotStep(EvStep(StateOfSystem(base, k - 1), active_ders[k]),
                          active_ders[k]), active_ders[k])

\* MicrogridPOI.get_state_of_system
GetStateOfSystem ==
    /\ ret.op = "none"
    /\ \E base \in BaseAggregates :
         ret' = [op |-> "get_state_of_system", args |-> [base |-> base],
                 out |-> StateOfSystem(base, Len(active_ders))]
    /\ UNCHANGED <<der_list, active_ders, site_load, variables_dict>>

InitThermal ==
    /\ der_list \in Fleets(ThermalCatalog)
    /\ active_ders = [i \in 1..Len(der_list) |-> i]
    /\ site_load = InitSiteLoad(der_list, active_ders)
    /\ variables_dict = <<>>
    /\ ret = NoRet

NextThermal == OptimizationProblem \/ GetStateOfSystem \/ Return

SpecThermal == InitThermal /\ [][NextThermal]_vars

\* ------------------------------------------------------------------ C1
Defined(c) == ~IsNone(site_load[c])

\* the channels optimization_problem is to add a balance inequality for
BalancedChannels(supply) == {c \in Channels : Defined(c) /\ Variables(supply[c]) # {}}

\* k states `supply >= load` of channel c: over the supply's variables, it
\* holds at a time step exactly when the supply is at least the load there
IsBalanceOf(k, c, supply) ==
    /\ Defined(c)
    /\ Variables(k.expr) = Variables(supply[c])
    /\ \A t \in Steps : \A a \in Assignments(Variables(supply[c])) :
          Holds(k, a, t) <=> (Eval(supply[c], a, t) >= site_load[c].val[t])

Appended(out, base) == SubSeq(out.constraint_list, Len(base) + 1, Len(out.constraint_list))

\* C1: optimization_problem returns the base objective and the base
\* constraints unchanged, followed by exactly one inequality supply >= load
\* for each channel whose site load is defined and whose supply expression
\* holds a decision variable, and by nothing for any other channel.
C1_BalanceIffLoadAndVariables ==
    ret.op = "optimization_problem" =>
        LET base == ret.args.base
            supply == ret.args.supply
            out == ret.out
            app == Appended(out, base)
        IN  /\ out.obj_expression = ret.args.obj
            /\ Len(out.constraint_list) >= Len(base)
            /\ SubSeq(out.constraint_list, 1, Len(base)) = base
            /\ Len(app) = Cardinality(BalancedChannels(supply))
            /\ \A c \in Channels :
                  Cardinality({j \in DOMAIN app : IsBalanceOf(app[j], c, supply)})
                      = IF c \in BalancedChannels(supply) THEN 1 ELSE 0

\* a call that added a steam balance and skipped a channel with a defined load
\* and a constant supply
C1_Witness ==
    /\ ret.op = "optimization_problem"
    /\ "steam" \in BalancedChannels(ret.args.supply)
    /\ Defined("hotwater") /\ Variables(ret.args.supply["hotwater"]) = {}
    /\ Len(ret.out.constraint_list) = Len(ret.args.base) + 1
    /\ Len(ret.args.base) = 1

\* ------------------------------------------------------------------ C9
Feeds(d) ==
    (IF d.is_hot THEN {"steam", "hotwater"} ELSE {})
        \cup (IF d.is_cold THEN {"cooling"} ELSE {})

SourceOf(c) == IF c = "cooling" THEN "cold" ELSE "heat"

Warned(i, source) == \E w \in Range(ret.out.warnings) : w = Warning(i, source)

\* the recovered energy of technology i is in the aggregate of channel c
Added(i, c) == CoefOf(ret.out.agg[c], RecoveredVar(i, c)) = 1
NotAdded(i, c) == RecoveredVar(i, c) \notin Variables(ret.out.agg[c])

\* C9 as stated: every channel an active source feeds is either added (load
\* defined) or skipped with a warning (load undefined).
C9_NeverSkippedWithoutWarning ==
    ret.op = "get_state_of_system" =>
        \A k \in DOMAIN active_ders : \A c \in Feeds(der_list[active_ders[k]]) :
            LET i == active_ders[k]
            IN  IF Defined(c) THEN Added(i, c)
                ELSE Warned(i, SourceOf(c)) /\ NotAdded(i, c)

\* C9 amended: a heat source is warned about only when both the steam and the
\* hotwater load are undefined; with one of them defined the other channel is
\* left out of the aggregate without a warning.  A cold source is warned about
\* exactly when the cooling load is undefined.  A channel is added exactly
\* when its load is defined.
C9_WarningOnlyWhenAllHeatLoadsUndefined ==
    ret.op = "get_state_of_system" =>
        \A k \in DOMAIN active_ders :
            LET i == active_ders[k]
                d == der_list[i]
            IN  /\ \A c \in Feeds(d) : IF Defined(c) THEN Added(i, c) ELSE NotAdded(i, c)
                /\ d.is_hot =>
                      (Warned(i, "heat") <=> (~Defined("steam") /\ ~Defined("hotwater")))
                /\ d.is_cold => (Warned(i, "cold") <=> ~Defined("cooling"))
                /\ ~d.is_hot => ~Warned(i, "heat")
                /\ ~d.is_cold => ~Warned(i, "cold")

\* a heat source with the steam load defined and the hotwater load undefined:
\* steam is added, hotwater is left out, and there is no warning
C9_Witness ==
    /\ ret.op = "get_state_of_system"
    /\ \E k \in DOMAIN active_ders :
          /\ der_list[active_ders[k]].is_hot
          /\ Defined("steam") /\ ~Defined("hotwater")
          /\ Added(active_ders[k], "steam")
          /\ NotAdded(active_ders[k], "hotwater")
          /\ ret.out.warnings = <<>>

\* ------------------------------------------------------- sizing validation
\* The technologies of the sizing specification: the tag, the answer of
\* is_power_sizing() and the answer of sizing_error().
SizingKinds ==
    [tag : {"Battery", "PV"}, power_sizing : BOOLEAN, sizing_err : BOOLEAN]

\* is_dcp_error keeping only the last technology's answer
RECURSIVE IsDcpErrorLastWins(_, _)
IsDcpErrorLastWins(k, is_binary_formulation) ==
    IF k = 0 THEN FALSE
    ELSE IF der_list[k].tag = "Battery"
         THEN der_list[k].power_sizing /\ is_binary_formulation
         ELSE IsDcpErrorLastWins(k - 1, is_binary_formulation)

\* MicrogridPOI.is_dcp_error: solve_for_size after the first k technologies
RECURSIVE IsDcpError(_, _)
IsDcpError(k, is_binary_formulation) ==
    IF k = 0 THEN FALSE
    ELSE LET solve_for_size == IsDcpError(k - 1, is_binary_formulation)
         IN  IF der_list[k].tag = "Battery"
             THEN solve_for_size \/ (der_list[k].power_sizing /\ is_binary_formulation)
             ELSE solve_for_size

CallIsDcpError ==
    /\ ret.op = "none"
    /\ \E is_binary_formulation \in BOOLEAN :
         ret' = [op |-> "is_dcp_error",
                 args |-> [is_binary_formulation |-> is_binary_formulation],
                 out |-> IsDcpError(Len(der_list), is_binary_formulation)]
    /\ UNCHANGED <<der_list, active_ders, site_load, variables_dict>>

\* ParameterError(f'Sizing of DERs has an error. Please check error log.'):
\* the message names no technology
SizingParameterError == [type |-> "ParameterError", refs |-> {}]

\* the technologies whose sizing_error() is called, stopping at the first error
RECURSIVE SizingErrorsUntilFirst(_)
SizingErrorsUntilFirst(k) ==
    IF k = 0 THEN <<>>
    ELSE LET before == SizingErrorsUntilFirst(k - 1)
         IN  IF \E j \in DOMAIN before : before[j].err THEN before
             ELSE Append(before, [der |-> k, err |-> der_list[k].sizing_err])

\* errors_found = [1 if der.sizing_error() else 0 for der in self.der_list]:
\* the calls of sizing_error() over the first k technologies, with their answers
RECURSIVE SizingErrorsFound(_)
SizingErrorsFound(k) ==
    IF k = 0 THEN <<>>
    ELSE Append(SizingErrorsFound(k - 1), [der |-> k, err |-> der_list[k].sizing_err])

\* MicrogridPOI.error_checks_on_sizing
ErrorChecksOnSizing ==
    /\ ret.op = "none"
    /\ LET errors_found == SizingErrorsFound(Len(der_list))
       IN  ret' = [op |-> "error_checks_on_sizing",
                   queried |-> [j \in DOMAIN errors_found |-> errors_found[j].der],
                   raised |-> IF \E j \in DOMAIN errors_found : errors_found[j].err
                              THEN <<SizingParameterError>> ELSE <<>>]
    /\ UNCHANGED <<der_list, active_ders, site_load, variables_dict>>

InitSizing ==
    /\ der_list \in Fleets(SizingKinds)
    /\ active_ders = [i \in 1..Len(der_list) |-> i]
    /\ site_load = [c \in Channels |-> NoneV]
    /\ variables_dict = <<>>
    /\ ret = NoRet

NextSizing == CallIsDcpError \/ ErrorChecksOnSizing \/ Return

SpecSizing == InitSizing /\ [][NextSizing]_vars

Failing == {i \in DOMAIN der_list : der_list[i].sizing_err}

\* C5 as stated: every technology is queried, then exactly one error that
\* references every failing technology is raised if there is one, none otherwise.
C5_OneErrorReferencingEveryFailure ==
    ret.op = "error_checks_on_sizing" =>
        /\ ret.queried = [i \in DOMAIN der_list |-> i]
        /\ IF Failing = {} THEN ret.raised = <<>>
           ELSE /\ Len(ret.raised) = 1
                /\ ret.raised[1].type = "ParameterError"
                /\ ret.raised[1].refs = Failing

\* C5 amended: every technology is queried, also after a failing one, then
\* exactly one ParameterError is raised if at least one reported an error and
\* none otherwise; its message is fixed and names no technology.
C5_OneGenericErrorAfterQueryingAll ==
    ret.op = "error_checks_on_sizing" =>
        /\ ret.queried = [i \in DOMAIN der_list |-> i]
        /\ IF Failing = {} THEN ret.raised = <<>>
           ELSE ret.raised = <<[type |-> "ParameterError", refs |-> {}]>>

\* the first technology fails, the last one does not and is still queried; one
\* error is raised
C5_Witness ==
    /\ ret.op = "error_checks_on_sizing"
    /\ Len(der_list) >= 2
    /\ der_list[1].sizing_err /\ ~der_list[Len(der_list)].sizing_err
    /\ ret.queried[Len(der_list)] = Len(der_list)
    /\ Len(ret.raised) = 1

\* -------------------------------------------------------- deferral sizing
\* a number as a cvx operand
ScalarExpr(n) == ConstExpr([t \in Steps |-> n])

\* deferral.deferral_df: the power and energy requirement of every year
DeferralYears == 1..MaxYear
DeferralDf == [y \in DeferralYears |-> [power |-> y, energy |-> 2 * y + 1]]

\* a constraint the sizing module has put in size_constraints before set_size
PriorSizeConstraint(i) ==
    NonPos(ExprSub(VarExpr(<<i, "ene_max_rated">>), ScalarExpr(2 * MaxYear + 2)))

\* The technologies of the deferral specification.  A storage asset has rated
\* capacities that are optimization variables (being sized) or numbers, and a
\* list of size constraints.
DeferralKinds == {"BatterySized", "BatterySizedConstrained", "BatteryFixed", "PV"}
StorageKinds == DeferralKinds \ {"PV"}

DeferralDer(kind, i) ==
    CASE kind = "BatteryFixed" ->
           [tag |-> "Battery", ch_max_rated |-> ScalarExpr(1), dis_max_rated |-> ScalarExpr(1),
            ene_max_rated |-> ScalarExpr(2), size_constraints |-> <<>>]
      [] kind = "PV" -> [tag |-> "PV", size_constraints |-> <<>>]
      [] OTHER ->
           [tag |-> "Battery", ch_max_rated |-> VarExpr(<<i, "ch_max_rated">>),
            dis_max_rated |-> VarExpr(<<i, "dis_max_rated">>),
            ene_max_rated |-> VarExpr(<<i, "ene_max_rated">>),
            size_constraints |-> IF kind = "BatterySizedConstrained"
                                 THEN <<PriorSizeConstraint(i)>> ELSE <<>>]

\* set_size takes der_list[0] for the storage asset: the fleets start with one
DeferralFleets ==
    {[i \in DOMAIN f |-> DeferralDer(f[i], i)] :
        f \in {g \in Fleets(DeferralKinds) : g[1] \in StorageKinds}}

\* the active value streams: Deferral, alone or with others
ValueStreamSets == {{"Deferral"}, {"Deferral", "DA"}, {"Deferral", "DA", "FR"}}

\* last_year_to_defer without the - 1
LastYearToDeferInclusive(start_year, min_year) == start_year + min_year

\* last_year_to_defer = start_year.year + min_year - 1
LastYearToDefer(start_year, min_year) == start_year + min_year - 1

\* set_size assigning the three floors instead of appending them
SetSizeDersAssign(ders, n_streams, min_power, min_energy) ==
    LET ess_inst == ders[1]
    IN  IF n_streams > 1
        THEN [ders EXCEPT ![1].size_constraints =
                 <<NonPos(ExprSub(ScalarExpr(min_energy), ess_inst.ene_max_rated)),
                   NonPos(ExprSub(ScalarExpr(min_power), ess_inst.ch_max_rated)),
                   NonPos(ExprSub(ScalarExpr(min_power), ess_inst.dis_max_rated))>>]
        ELSE [ders EXCEPT ![1].ch_max_rated = ScalarExpr(min_power),
                          ![1].dis_max_rated = ScalarExpr(min_power),
                          ![1].ene_max_rated = ScalarExpr(min_energy)]

\* the two branches of set_size on ess_inst = der_list[0]
SetSizeDers(ders, n_streams, min_power, min_energy) ==
    LET ess_inst == ders[1]
    IN  IF n_streams > 1
        THEN [ders EXCEPT ![1].size_constraints = @ \o
                 <<NonPos(ExprSub(ScalarExpr(min_energy), ess_inst.ene_max_rated)),
                   NonPos(ExprSub(ScalarExpr(min_power), ess_inst.ch_max_rated)),
                   NonPos(ExprSub(ScalarExpr(min_power), ess_inst.dis_max_rated))>>]
        ELSE [ders EXCEPT ![1].ch_max_rated = ScalarExpr(min_power),
                          ![1].dis_max_rated = ScalarExpr(min_power),
                          ![1].ene_max_rated = ScalarExpr(min_energy)]

\* MicrogridPOI.set_size; deferral_df.loc raises KeyError for a year the table
\* does not hold
SetSize ==
    /\ ret.op = "none"
    /\ Len(der_list[1].size_constraints) < 3 * MaxSetSizeCalls
    /\ \E value_streams \in ValueStreamSets, min_years \in 1..MaxMinYears,
          start_year \in DeferralYears :
         LET last_year_to_defer == LastYearToDefer(start_year, min_years)
             args == [value_streams |-> value_streams, min_years |-> min_years,
                      start_year |-> start_year]
         IN  IF last_year_to_defer \notin DOMAIN DeferralDf
             THEN /\ ret' = [op |-> "set_size", args |-> args, old |-> der_list,
                             err |-> "KeyError"]
                  /\ UNCHANGED der_list
             ELSE /\ ret' = [op |-> "set_size", args |-> args, old |-> der_list,
                             err |-> "none"]
                  /\ der_list' = SetSizeDers(der_list, Cardinality(value_streams),
                                             DeferralDf[last_year_to_defer].power,
                                             DeferralDf[last_year_to_defer].energy)
    /\ UNCHANGED <<active_ders, site_load, variables_dict>>

InitDeferral ==
    /\ der_list \in DeferralFleets
    /\ active_ders = [i \in 1..Len(der_list) |-> i]
    /\ site_load = [c \in Channels |-> NoneV]
    /\ variables_dict = <<>>
    /\ ret = NoRet

NextDeferral == SetSize \/ Return

SpecDeferral == InitDeferral /\ [][NextDeferral]_vars

\* ------------------------------------------------------------ C3 and C4
\* the year whose requirement the call is to read, and that requirement
RequirementYear == ret.args.start_year + ret.args.min_years - 1
Requirement == DeferralDf[RequirementYear]

SetSizeDone == ret.op = "set_size" /\ ret.err = "none"

\* C3: with Deferral the only value stream, set_size leaves the storage
\* asset's ch_max_rated and dis_max_rated equal to the power requirement and
\* its ene_max_rated equal to the energy requirement of the year
\* start_year + min_years - 1, and adds nothing to size_constraints.
C3_DeferralOnlySetsRatedToFloor ==
    (SetSizeDone /\ ret.args.value_streams = {"Deferral"}) =>
        /\ RequirementYear \in DeferralYears
        /\ der_list[1].ch_max_rated = ScalarExpr(Requirement.power)
        /\ der_list[1].dis_max_rated = ScalarExpr(Requirement.power)
        /\ der_list[1].ene_max_rated = ScalarExpr(Requirement.energy)
        /\ der_list[1].size_constraints = ret.old[1].size_constraints
        /\ \A i \in DOMAIN der_list : i > 1 => der_list[i] = ret.old[i]
        /\ DOMAIN der_list = DOMAIN ret.old

\* a sized storage asset that held a constraint, after a Deferral-only call
\* for a start year later than the first and min_years of 2
C3_Witness ==
    /\ SetSizeDone /\ ret.args.value_streams = {"Deferral"}
    /\ ret.args.min_years = 2 /\ ret.args.start_year = 2
    /\ ret.old[1].ch_max_rated = VarExpr(<<1, "ch_max_rated">>)
    /\ Len(der_list[1].size_constraints) = 1
    /\ der_list[1].ene_max_rated = ScalarExpr(7)

FloorVals == 0..(2 * MaxYear + 2)

\* c states `floor <= rated`: over the variables of rated, it holds exactly
\* when the rated capacity is at least the floor
IsFloor(c, floor, rated) ==
    /\ Variables(c.expr) = Variables(rated)
    /\ \A a \in [Variables(rated) -> FloorVals] :
          Holds(c, a, 1) <=> (floor <= Eval(rated, a, 1))

\* C4: with more than one value stream, set_size appends to the storage
\* asset's size_constraints exactly three inequalities, min_power <=
\* ch_max_rated, min_power <= dis_max_rated and min_energy <= ene_max_rated,
\* keeps the constraints that were there, and changes nothing else of any
\* technology.
C4_CompetingStreamsAppendThreeFloors ==
    (SetSizeDone /\ Cardinality(ret.args.value_streams) > 1) =>
        LET old == ret.old[1]
            new == der_list[1]
            n == Len(old.size_constraints)
        IN  /\ RequirementYear \in DeferralYears
            /\ Len(new.size_constraints) = n + 3
            /\ SubSeq(new.size_constraints, 1, n) = old.size_constraints
            /\ \E p \in [1..3 -> 1..3] :
                  /\ \A x, y \in 1..3 : p[x] = p[y] => x = y
                  /\ IsFloor(new.size_constraints[n + p[1]], Requirement.power,
                             old.ch_max_rated)
                  /\ IsFloor(new.size_constraints[n + p[2]], Requirement.power,
                             old.dis_max_rated)
                  /\ IsFloor(new.size_constraints[n + p[3]], Requirement.energy,
                             old.ene_max_rated)
            /\ der_list = [ret.old EXCEPT ![1].size_constraints = new.size_constraints]

\* a sized storage asset that held a constraint, after a call with two value
\* streams: four constraints, the first one the old one
C4_Witness ==
    /\ SetSizeDone /\ Cardinality(ret.args.value_streams) = 2
    /\ Len(ret.old[1].size_constraints) = 1
    /\ Len(der_list[1].size_constraints) = 4
    /\ der_list[1].size_constraints[1] = PriorSizeConstraint(1)
    /\ der_list[1].ch_max_rated = VarExpr(<<1, "ch_max_rated">>)
    /\ Len(der_list) = 2

\* ------------------------------------------------------------ result merge
\* A data frame over the time index: a function from column keys to series.
\* The key of a technology's column is <<unique_tech_id, label>>, the key of
\* an aggregate column is <<0, label>>.
TotalOriginalLoad == <<0, "Total Original Load (kW)">>
TotalLoad == <<0, "Total Load (kW)">>
TotalGeneration == <<0, "Total Generation (kW)">>
TotalStoragePower == <<0, "Total Storage Power (kW)">>
AggregatedSoe == <<0, "Aggregated State of Energy (kWh)">>
NetLoad == <<0, "Net Load (kW)">>

NegSeries(k) == [t \in Steps |-> 0 - ((k + t) % 3)]

\* The technologies of the merge specification, each with the columns of its
\* timeseries_report().
MergeKinds ==
    {"ICE", "PV", "BatteryDischarging", "BatteryCharging", "Load", "ControllableLoadIdle",
     "ControllableLoadShifted", "EV1Idle", "EV1Charging", "EV2Charging"}

MergeDer(kind, i) ==
    CASE kind = "ICE" ->
           [technology_type |-> "Generator", tag |-> "ICE", id |-> i,
            report |-> (<<i, "Electric Generation (kW)">> :> Series(1))]
      [] kind = "PV" ->
           [technology_type |-> "Intermittent Resource", tag |-> "PV", id |-> i,
            report |-> (<<i, "Electric Generation (kW)">> :> Series(2))]
      [] kind \in {"BatteryDischarging", "BatteryCharging"} ->
           [technology_type |-> "Energy Storage System", tag |-> "Battery", id |-> i,
            report |-> (<<i, "Power (kW)">> :>
                            (IF kind = "BatteryCharging" THEN NegSeries(1) ELSE Series(1))
                        @@ <<i, "State of Energy (kWh)">> :> Series(2))]
      [] kind = "Load" ->
           [technology_type |-> "Load", tag |-> "Load", id |-> i,
            report |-> (<<i, "Original Load (kW)">> :> Series(1))]
      [] kind \in {"ControllableLoadIdle", "ControllableLoadShifted"} ->
           [technology_type |-> "Load", tag |-> "ControllableLoad", id |-> i,
            report |-> (<<i, "Original Load (kW)">> :> Series(1)
                        @@ <<i, "Load (kW)">> :>
                            (IF kind = "ControllableLoadShifted" THEN Series(2) ELSE Series(1)))]
      [] kind \in {"EV1Idle", "EV1Charging"} ->
           [technology_type |-> "Electric Vehicle", tag |-> "ElectricVehicle1", id |-> i,
            report |-> (<<i, "Charge (kW)">> :>
                            (IF kind = "EV1Charging" THEN Series(1) ELSE ZeroSeries)
                        @@ <<i, "State of Energy (kWh)">> :> Series(1))]
      [] OTHER ->
           [technology_type |-> "Electric Vehicle", tag |-> "ElectricVehicle2", id |-> i,
            report |-> (<<i, "Charge (kW)">> :> Series(2))]

MergeFleets == {[i \in DOMAIN f |-> MergeDer(f[i], i)] : f \in Fleets(MergeKinds)}

\* the columns that are always present, all zero
InitialResults ==
    [c \in {TotalOriginalLoad, TotalLoad, TotalGeneration, TotalStoragePower, AggregatedSoe}
        |-> ZeroSeries]

\* pd.concat([report_df, results], axis=1)
Concat(report_df, results) ==
    [c \in (DOMAIN report_df) \cup (DOMAIN results) |->
        IF c \in DOMAIN results THEN results[c] ELSE report_df[c]]

\* results.loc[:, total] += results[column]
AddColumn(results, total, column) ==
    [results EXCEPT ![total] = [t \in Steps |-> @[t] + results[column][t]]]

GenerationStep(results, der) ==
    IF der.technology_type \in {"Generator", "Intermittent Resource"}
    THEN AddColumn(results, TotalGeneration, <<der.id, "Electric Generation (kW)">>)
    ELSE results

StorageStep(results, der) ==
    IF der.technology_type = "Energy Storage System"
    THEN AddColumn(AddColumn(results, TotalStoragePower, <<der.id, "Power (kW)">>),
                   AggregatedSoe, <<der.id, "State of Energy (kWh)">>)
    ELSE results

\* LoadStep without the ControllableLoad special case
LoadStepOriginalOnly(results, der) ==
    IF der.technology_type = "Load"
    THEN LET r == AddColumn(results, TotalOriginalLoad, <<der.id, "Original Load (kW)">>)
         IN  AddColumn(r, TotalLoad, <<der.id, "Original Load (kW)">>)
    ELSE results

\* `if der.technology_type == 'Load':` with the ControllableLoad special case
LoadStep(results, der) ==
    IF der.technology_type = "Load"
    THEN LET r == AddColumn(results, TotalOriginalLoad, <<der.id, "Original Load (kW)">>)
         IN  IF der.tag = "ControllableLoad"
             THEN AddColumn(r, TotalLoad, <<der.id, "Load (kW)">>)
             ELSE AddColumn(r, TotalLoad, <<der.id, "Original Load (kW)">>)
    ELSE results

ElectricVehicleStep(results, der) ==
    IF der.technology_type = "Electric Vehicle"
    THEN LET r == AddColumn(results, TotalLoad, <<der.id, "Charge (kW)">>)
         IN  IF der.tag = "ElectricVehicle1"
             THEN AddColumn(r, AggregatedSoe, <<der.id, "State of Energy (kWh)">>)
             ELSE r
    ELSE results

\* the loop of merge_reports over the first k technologies
RECURSIVE MergeLoop(_, _)
MergeLoop(k, is_dispatch_opt) ==
    IF k = 0 THEN InitialResults
    ELSE LET der == der_list[k]
             results == Concat(der.report, MergeLoop(k - 1, is_dispatch_opt))
         IN  IF is_dispatch_opt
             THEN ElectricVehicleStep(LoadStep(StorageStep(GenerationStep(results, der),
                                                           der), der), der)
             ELSE results

\* the drop made as soon as the two totals agree in some row
DropRedundantIfAnyEqual(results) ==
    IF \E t \in Steps : results[TotalLoad][t] = results[TotalOriginalLoad][t]
    THEN [c \in (DOMAIN results) \ {TotalOriginalLoad} |-> results[c]]
    ELSE results

\* if np.all(results['Total Load (kW)'] == results['Total Original Load (kW)']):
\*     results.drop('Total Original Load (kW)', axis=1, inplace=True)
DropRedundant(results) ==
    IF \A t \in Steps : results[TotalLoad][t] = results[TotalOriginalLoad][t]
    THEN [c \in (DOMAIN results) \ {TotalOriginalLoad} |-> results[c]]
    ELSE results

\* the net load with the storage power added instead of subtracted
WithNetLoadPlusStorage(results) ==
    [c \in (DOMAIN results) \cup {NetLoad} |->
        IF c = NetLoad
        THEN [t \in Steps |-> results[TotalLoad][t] - results[TotalGeneration][t]
                                  + results[TotalStoragePower][t]]
        ELSE results[c]]

\* results.loc[:, 'Net Load (kW)'] = Total Load - Total Generation - Total Storage Power
WithNetLoad(results) ==
    [c \in (DOMAIN results) \cup {NetLoad} |->
        IF c = NetLoad
        THEN [t \in Steps |-> results[TotalLoad][t] - results[TotalGeneration][t]
                                  - results[TotalStoragePower][t]]
        ELSE results[c]]

\* MicrogridPOI.merge_reports; `accumulated` is the table when the loop ends
MergeReports ==
    /\ ret.op = "none"
    /\ \E is_dispatch_opt \in BOOLEAN :
         LET accumulated == MergeLoop(Len(der_list), is_dispatch_opt)
         IN  ret' = [op |-> "merge_reports",
                     args |-> [is_dispatch_opt |-> is_dispatch_opt],
                     accumulated |-> accumulated,
                     out |-> WithNetLoad(DropRedundant(accumulated)),
                     monthly_data |-> [i \in DOMAIN der_list |-> der_list[i].id]]
    /\ UNCHANGED <<der_list, active_ders, site_load, variables_dict>>

InitMerge ==
    /\ der_list \in MergeFleets
    /\ active_ders = [i \in 1..Len(der_list) |-> i]
    /\ site_load = [c \in Channels |-> NoneV]
    /\ variables_dict = <<>>
    /\ ret = NoRet

NextMerge == MergeReports \/ Return

SpecMerge == InitMerge /\ [][NextMerge]_vars

\* ------------------------------------------------------------------ C6
\* C6: in every row of the table merge_reports returns, Net Load is Total
\* Load minus Total Generation minus Total Storage Power of that row.
C6_NetLoadIsLoadMinusGenerationMinusStorage ==
    ret.op = "merge_reports" =>
        /\ {NetLoad, TotalLoad, TotalGeneration, TotalStoragePower} \subseteq DOMAIN ret.out
        /\ \A t \in Steps :
              ret.out[NetLoad][t] = ret.out[TotalLoad][t] - ret.out[TotalGeneration][t]
                                        - ret.out[TotalStoragePower][t]

\* a dispatch merge of a fleet with a charging battery and a generator: the
\* storage total is negative somewhere and the generation total is not zero
C6_Witness ==
    /\ ret.op = "merge_reports" /\ ret.args.is_dispatch_opt
    /\ \E t \in Steps : ret.out[TotalStoragePower][t] < 0 /\ ret.out[TotalGeneration][t] > 0

\* ------------------------------------------------------------------ C7
TotalsCoincide ==
    \A t \in Steps : ret.accumulated[TotalLoad][t] = ret.accumulated[TotalOriginalLoad][t]

\* C7: the returned table has no Total Original Load column when the two load
\* totals agree in every row and has it otherwise; without dispatch
\* optimization it never has it.
C7_OriginalLoadColumnDroppedIffRedundant ==
    ret.op = "merge_reports" =>
        /\ (TotalOriginalLoad \notin DOMAIN ret.out) <=> TotalsCoincide
        /\ TotalOriginalLoad \in DOMAIN ret.out =>
              ret.out[TotalOriginalLoad] = ret.accumulated[TotalOriginalLoad]
        /\ ~ret.args.is_dispatch_opt => TotalOriginalLoad \notin DOMAIN ret.out

\* the totals agree in one row and differ in another: the column is kept
C7_Witness ==
    /\ ret.op = "merge_reports"
    /\ \E t \in Steps : ret.accumulated[TotalLoad][t] = ret.accumulated[TotalOriginalLoad][t]
    /\ \E t \in Steps : ret.accumulated[TotalLoad][t] # ret.accumulated[TotalOriginalLoad][t]
    /\ TotalOriginalLoad \in DOMAIN ret.out

\* ----------------------------------------------------------------- C10
ControllableLoadAltered ==
    \E i \in DOMAIN der_list :
        /\ der_list[i].tag = "ControllableLoad"
        /\ der_list[i].report[<<i, "Load (kW)">>] # der_list[i].report[<<i, "Original Load (kW)">>]

VehicleCharging ==
    \E i \in DOMAIN der_list :
        /\ der_list[i].technology_type = "Electric Vehicle"
        /\ der_list[i].report[<<i, "Charge (kW)">>] # ZeroSeries

\* what technology i adds to Total Load beyond Total Original Load at step t
LoadShift(i, t) ==
    IF der_list[i].tag = "ControllableLoad"
    THEN der_list[i].report[<<i, "Load (kW)">>][t]
             - der_list[i].report[<<i, "Original Load (kW)">>][t]
    ELSE IF der_list[i].technology_type = "Electric Vehicle"
         THEN der_list[i].report[<<i, "Charge (kW)">>][t]
         ELSE 0

\* C10 as stated: in dispatch mode the two load totals agree in every row
\* unless a controllable load has a Load series other than its Original Load.
C10_TotalsDifferOnlyByControllableLoad ==
    (ret.op = "merge_reports" /\ ret.args.is_dispatch_opt) =>
        (ControllableLoadAltered \/ TotalsCoincide)

\* C10 amended: in dispatch mode the two load totals agree in every row unless
\* a controllable load has a Load series other than its Original Load or an
\* electric vehicle has a Charge series that is not zero; row by row, Total
\* Load exceeds Total Original Load by the controllable loads' shift plus the
\* vehicles' charge, and storage and generators add nothing to either.
C10_TotalsDifferOnlyByControllableLoadOrVehicle ==
    (ret.op = "merge_reports" /\ ret.args.is_dispatch_opt) =>
        /\ ControllableLoadAltered \/ VehicleCharging \/ TotalsCoincide
        /\ \A t \in Steps :
              ret.accumulated[TotalLoad][t] - ret.accumulated[TotalOriginalLoad][t]
                  = SumOver(DOMAIN der_list, [i \in DOMAIN der_list |-> LoadShift(i, t)])

\* a fleet of a plain load and a charging vehicle: the totals differ
C10_Witness ==
    /\ ret.op = "merge_reports" /\ ret.args.is_dispatch_opt
    /\ ~ControllableLoadAltered /\ VehicleCharging /\ ~TotalsCoincide
    /\ \E i \in DOMAIN der_list : der_list[i].tag = "Load"

\* ------------------------------------------------------------------- CHP
\* The CHP is der_list[1]: its name and the two ratios of its parameters.
ChpParams ==
    [tag : {"CHP"}, name : {"chp1"}, max_steam_ratio : 0..MaxRatio,
     electric_heat_ratio : 1..MaxRatio]

\* cvx.Variable(shape=size, name=..., nonneg=...): a variable is a new object,
\* told apart by the window it was made in
Variable(window, name, size, nonneg) ==
    [id |-> <<window, name>>, shape |-> size, nonneg |-> nonneg]

\* the window the variables of variables_dict were made in, 0 before the first
CurrentWindow ==
    IF DOMAIN variables_dict = {} THEN 0 ELSE variables_dict["elec"].id[1]

\* super().initialize_variables(size): the generator's electric output and
\* its on/off state
BaseVariables(window, size) ==
    ("elec" :> Variable(window, "elec", size, TRUE)
     @@ "on" :> Variable(window, "on", size, FALSE))

\* CHP variables created without nonneg=True
ChpVariablesFree(window, size) ==
    ("steam" :> Variable(window, "steam", size, FALSE)
     @@ "hotwater" :> Variable(window, "hotwater", size, FALSE))

\* initialize_variables keeping the heat variables it finds in the dict
ChpVariablesReused(window, size) ==
    IF "steam" \in DOMAIN variables_dict
    THEN [k \in {"steam", "hotwater"} |-> variables_dict[k]]
    ELSE ("steam" :> Variable(window, "steam", size, TRUE)
          @@ "hotwater" :> Variable(window, "hotwater", size, TRUE))

\* the two variables CHP.initialize_variables adds
ChpVariables(window, size) ==
    ("steam" :> Variable(window, "steam", size, TRUE)
     @@ "hotwater" :> Variable(window, "hotwater", size, TRUE))

\* dict.update: the entries of `new` replace or extend those of `old`
DictUpdate(old, new) ==
    [k \in (DOMAIN old) \cup (DOMAIN new) |-> IF k \in DOMAIN new THEN new[k] ELSE old[k]]

\* CHP.initialize_variables
InitializeVariables ==
    /\ ret.op = "none"
    /\ CurrentWindow < MaxWindows
    /\ \E size \in Steps :
         /\ variables_dict' = DictUpdate(BaseVariables(CurrentWindow + 1, size),
                                         ChpVariables(CurrentWindow + 1, size))
         /\ ret' = [op |-> "initialize_variables", args |-> [size |-> size],
                    old |-> variables_dict]
    /\ UNCHANGED <<der_list, active_ders, site_load>>

\* what super().constraints(mask) returns: nothing, or a bound on the electric
\* output
BaseGeneratorConstraints ==
    {<<>>, <<NonPos(ExprSub(VarExpr(variables_dict["elec"].id), ScalarExpr(MaxVal)))>>}

\* the steam bound with the two heat streams exchanged
SteamBoundSwapped(steam, hotwater, max_steam_ratio) ==
    NonPos(ExprSub(VarExpr(hotwater.id), ExprScale(max_steam_ratio, VarExpr(steam.id))))

\* cvx.NonPos(steam - self.max_steam_ratio * hotwater)
SteamBound(steam, hotwater, max_steam_ratio) ==
    NonPos(ExprSub(VarExpr(steam.id), ExprScale(max_steam_ratio, VarExpr(hotwater.id))))

\* the heat tie leaving the hot water out
HeatTieSteamOnly(steam, hotwater, elec, electric_heat_ratio) ==
    Zero(ExprSub(ExprScale(electric_heat_ratio, VarExpr(steam.id)), VarExpr(elec.id)))

\* cvx.Zero((steam + hotwater) * self.electric_heat_ratio - elec)
HeatTie(steam, hotwater, elec, electric_heat_ratio) ==
    Zero(ExprSub(ExprScale(electric_heat_ratio,
                           ExprAdd(VarExpr(steam.id), VarExpr(hotwater.id))),
                 VarExpr(elec.id)))

\* CHP.constraints
ChpConstraints(constraint_list) ==
    LET elec == variables_dict["elec"]
        steam == variables_dict["steam"]
        hotwater == variables_dict["hotwater"]
    IN  constraint_list
            \o <<SteamBound(steam, hotwater, der_list[1].max_steam_ratio)>>
            \o <<HeatTie(steam, hotwater, elec, der_list[1].electric_heat_ratio)>>

\* a call of constraints(mask); before the first initialize_variables the
\* dict has no 'elec' entry and the call raises KeyError
Constraints ==
    /\ ret.op = "none"
    /\ IF "elec" \notin DOMAIN variables_dict
       THEN ret' = [op |-> "constraints", err |-> "KeyError"]
       ELSE \E base \in BaseGeneratorConstraints :
              ret' = [op |-> "constraints", err |-> "none", args |-> [base |-> base],
                      out |-> ChpConstraints(base)]
    /\ UNCHANGED <<der_list, active_ders, site_load, variables_dict>>

InitCHP ==
    /\ der_list \in [1..1 -> ChpParams]
    /\ active_ders = <<1>>
    /\ site_load = [c \in Channels |-> NoneV]
    /\ variables_dict = <<>>
    /\ ret = NoRet

\* return self.variables_dict['steam'] / ['hotwater']: the object in the dict
Recovered(name) == variables_dict[name]

\* CHP.get_steam_recovered and CHP.get_hotwater_recovered
GetRecovered ==
    /\ ret.op = "none"
    /\ \E name \in {"steam", "hotwater"} :
         ret' = IF name \in DOMAIN variables_dict
                THEN [op |-> "get_recovered", args |-> [name |-> name], err |-> "none",
                      out |-> Recovered(name)]
                ELSE [op |-> "get_recovered", args |-> [name |-> name], err |-> "KeyError"]
    /\ UNCHANGED <<der_list, active_ders, site_load, variables_dict>>

NextCHP == InitializeVariables \/ Constraints \/ GetRecovered \/ Return

SpecCHP == InitCHP /\ [][NextCHP]_vars

\* ------------------------------------------------------------------ C8
\* the values a variable may take at one time step
ValuesOf(v) == IF v.nonneg THEN 0..MaxVal ELSE (0 - 1)..MaxVal

\* the point assignments of the three CHP outputs the solver may return
ChpAssignments ==
    LET vs == {variables_dict[k] : k \in {"elec", "steam", "hotwater"}}
    IN  {a \in [{v.id : v \in vs} -> (0 - 1)..MaxVal] :
            \A v \in vs : a[v.id] \in ValuesOf(v)}

Satisfies(a, constraint_list, t) ==
    \A j \in DOMAIN constraint_list : Holds(constraint_list[j], a, t)

\* C8: constraints(mask) returns the base generator's constraints followed by
\* exactly two more, and every assignment that satisfies the returned list has,
\* at every time step, steam <= max_steam_ratio * hotwater,
\* (steam + hotwater) * electric_heat_ratio = elec, steam >= 0 and hotwater >= 0.
C8_ChpCouplingHoldsInEverySolution ==
    (ret.op = "constraints" /\ ret.err = "none") =>
        LET steam == variables_dict["steam"].id
            hotwater == variables_dict["hotwater"].id
            elec == variables_dict["elec"].id
            n == Len(ret.args.base)
        IN  /\ Len(ret.out) = n + 2
            /\ SubSeq(ret.out, 1, n) = ret.args.base
            /\ \A t \in Steps : \A a \in ChpAssignments :
                  Satisfies(a, ret.out, t) =>
                      /\ a[steam] <= der_list[1].max_steam_ratio * a[hotwater]
                      /\ (a[steam] + a[hotwater]) * der_list[1].electric_heat_ratio = a[elec]
                      /\ a[steam] >= 0 /\ a[hotwater] >= 0

\* a returned list with a base constraint that a solution with steam and hot
\* water both flowing satisfies, and that a point with too much steam violates
C8_Witness ==
    /\ ret.op = "constraints" /\ ret.err = "none"
    /\ Len(ret.out) = 3
    /\ \E a \in ChpAssignments :
          /\ Satisfies(a, ret.out, 1)
          /\ a[variables_dict["steam"].id] > 0 /\ a[variables_dict["hotwater"].id] > 0
    /\ \E a \in ChpAssignments :
          /\ ~Satisfies(a, ret.out, 1)
          /\ a[variables_dict["steam"].id]
                > der_list[1].max_steam_ratio * a[variables_dict["hotwater"].id]

\* ------------------------------------------------- construction and windows
\* The technologies of the construction specification: the optional site load
\* attributes, being_sized() (missing from some classes), sizing_error() and
\* the years operational(year) is true for.
PoiDer(tag, attrs, being_sized, sizing_err, op_years) ==
    [tag |-> tag, attrs |-> attrs, being_sized |-> being_sized, sizing_err |-> sizing_err,
     op_years |-> op_years]

PoiCatalog ==
    {PoiDer("CHP", ChpDer(Some(Series(1)), NoneV).attrs, "false", FALSE, DeferralYears),
     PoiDer("CHP", ChpDer(NoneV, Some(Series(2))).attrs, "false", FALSE, {1}),
     PoiDer("Chiller", ChillerDer(Some(Series(0))).attrs, "false", FALSE, DeferralYears \ {1}),
     PoiDer("Battery", NoAttrs, "true", TRUE, DeferralYears),
     PoiDer("Battery", NoAttrs, "true", FALSE, {1, 2}),
     PoiDer("Load", NoAttrs, "absent", TRUE, DeferralYears),
     PoiDer("PV", NoAttrs, "false", TRUE, {2})}

\* the fleets POI.__init__ builds, the empty one included
PoiFleets == {<<>>} \cup Fleets(PoiCatalog)

\* being_sized() raising for every technology without the method
BeingSizedStrict(der) == der.being_sized # "false"

\* try: der_instance.being_sized() except AttributeError: False
BeingSized(der) == der.being_sized = "true"

\* MicrogridPOI.check_if_sizing_ders over the first k technologies
RECURSIVE CheckIfSizingDers(_)
CheckIfSizingDers(k) ==
    IF k = 0 THEN FALSE
    ELSE CheckIfSizingDers(k - 1) \/ BeingSized(der_list[k])

Unset == [st |-> "unset", val |-> <<>>]

\* the object before MicrogridPOI.__init__ has run its own lines
NewPoi == [op |-> "new"]

\* MicrogridPOI.__init__ after super().__init__: the sizing check, the
\* validation, which may raise and end the construction, and the site loads
Construct ==
    /\ ret = NewPoi
    /\ LET is_sizing_optimization == CheckIfSizingDers(Len(der_list))
           errors_found == IF is_sizing_optimization
                           THEN SizingErrorsFound(Len(der_list)) ELSE <<>>
           raised == IF \E j \in DOMAIN errors_found : errors_found[j].err
                     THEN <<SizingParameterError>> ELSE <<>>
       IN  /\ ret' = [op |-> "__init__",
                      is_sizing_optimization |-> is_sizing_optimization,
                      validated |-> is_sizing_optimization,
                      queried |-> [j \in DOMAIN errors_found |-> errors_found[j].der],
                      raised |-> raised]
           /\ site_load' = IF raised = <<>> THEN InitSiteLoad(der_list, active_ders)
                           ELSE site_load
    /\ UNCHANGED <<der_list, active_ders, variables_dict>>

\* the scenario goes on after a call that did not abort it
Proceed ==
    /\ ret.op \notin {"none", "new"}
    /\ ~(ret.op = "__init__" /\ ret.raised # <<>>)
    /\ ret' = NoRet
    /\ UNCHANGED <<der_list, active_ders, site_load, variables_dict>>

\* the index of an optimization window: the year of each of its time steps
WindowIndexes ==
    {<<y>> : y \in DeferralYears} \cup {<<y, y + 1>> : y \in DeferralYears}

\* grab_active_ders dropping from the list of the window before
RECURSIVE ActiveDersOfPrevious(_, _)
ActiveDersOfPrevious(k, year) ==
    IF k = 0 THEN <<>>
    ELSE LET before == ActiveDersOfPrevious(k - 1, year)
         IN  IF year \in der_list[k].op_years /\ k \in Range(active_ders)
             THEN Append(before, k) ELSE before

\* [der_inst for der_inst in self.der_list if der_inst.operational(year)],
\* over the first k technologies; a technology is named by its place in der_list
RECURSIVE ActiveDersOf(_, _)
ActiveDersOf(k, year) ==
    IF k = 0 THEN <<>>
    ELSE LET before == ActiveDersOf(k - 1, year)
         IN  IF year \in der_list[k].op_years THEN Append(before, k) ELSE before

\* MicrogridPOI.grab_active_ders
GrabActiveDers ==
    /\ ret.op = "none"
    /\ \E indx \in WindowIndexes :
         /\ active_ders' = ActiveDersOf(Len(der_list), indx[1])
         /\ ret' = [op |-> "grab_active_ders", args |-> [indx |-> indx],
                    old |-> [der_list |-> der_list, active_ders |-> active_ders,
                             site_load |-> site_load]]
    /\ UNCHANGED <<der_list, site_load, variables_dict>>

InitPOI ==
    /\ der_list \in PoiFleets
    /\ active_ders = [i \in 1..Len(der_list) |-> i]
    /\ site_load = [c \in Channels |-> Unset]
    /\ variables_dict = <<>>
    /\ ret = NewPoi

NextPOI == Construct \/ GrabActiveDers \/ Proceed

SpecPOI == InitPOI /\ [][NextPOI]_vars

\* ----------------------------------------------------------------- C11
\* the active technologies that declare a series for channel c
Declaring(c) ==
    {i \in Range(active_ders) : der_list[i].attrs[c].st = "series"}

Constructed == ret.op = "__init__" /\ ret.raised = <<>>

\* C11: after construction every site load attribute is set; it is the series
\* of an active technology that declares one, wherever that technology stands,
\* and None only when no active technology declares one.
C11_SiteLoadFromDeclaringTechnology ==
    Constructed =>
        \A c \in Channels :
            /\ site_load[c] # Unset
            /\ IF Declaring(c) = {} THEN site_load[c] = NoneV
               ELSE \E i \in Declaring(c) : site_load[c] = der_list[i].attrs[c]

\* ----------------------------------------------------------------- C12
\* C12: on construction is_sizing_optimization is the OR of being_sized() over
\* der_list, a technology without the method counting as not sized; the
\* sizing validation runs exactly when it is true, so a fleet with nothing
\* being sized raises no sizing error whatever sizing_error() would say.
C12_SizingFlagIsOrAndGatesValidation ==
    ret.op = "__init__" =>
        /\ ret.is_sizing_optimization
              <=> (\E i \in DOMAIN der_list : der_list[i].being_sized = "true")
        /\ ret.validated <=> ret.is_sizing_optimization
        /\ ret.validated => ret.queried = [i \in DOMAIN der_list |-> i]
        /\ ~ret.validated => ret.queried = <<>>
        /\ (\A i \in DOMAIN der_list : der_list[i].being_sized # "true") => ret.raised = <<>>
        /\ ret.raised # <<>> => ret.is_sizing_optimization

\* a fleet in which nothing is sized, with a technology that has no
\* being_sized and whose sizing_error() would report: construction succeeds
C12_Witness ==
    /\ ret.op = "__init__"
    /\ ~ret.is_sizing_optimization
    /\ \E i \in DOMAIN der_list :
          der_list[i].being_sized = "absent" /\ der_list[i].sizing_err
    /\ ret.raised = <<>>
    /\ Len(der_list) = 2

\* ----------------------------------------------------------------- C13
\* the places of der_list operational in `year`, in der_list order
OperationalIn(year) == {i \in DOMAIN der_list : year \in der_list[i].op_years}

IsSortedSeq(s) == \A i, j \in DOMAIN s : i < j => s[i] < s[j]

\* C13: after every grab_active_ders call active_ders is the sublist of
\* der_list, in der_list order, of the technologies operational in the first
\* year of the call's index, whatever the windows before; der_list, the
\* technologies and the site loads are as before the call.
C13_ActiveDersRecomputedFromDerList ==
    ret.op = "grab_active_ders" =>
        /\ Range(active_ders) = OperationalIn(ret.args.indx[1])
        /\ IsSortedSeq(active_ders)
        /\ der_list = ret.old.der_list
        /\ site_load = ret.old.site_load

\* a technology the window before had dropped is active again
C13_Witness ==
    /\ ret.op = "grab_active_ders"
    /\ \E i \in DOMAIN der_list :
          i \notin Range(ret.old.active_ders) /\ i \in Range(active_ders)
    /\ Len(ret.old.active_ders) < Len(active_ders)
    /\ \E c \in Channels : site_load[c].st = "series"

\* ----------------------------------------------------------------- C14
VariableIds(dict) == {dict[k].id : k \in DOMAIN dict}

\* the variables of the two constraints CHP.constraints adds
ConstrainedIds ==
    LET added == ChpConstraints(<<>>)
    IN  UNION {Variables(added[j].expr) : j \in DOMAIN added}

\* C14: every initialize_variables call leaves in variables_dict only
\* variables made by that call, steam and hotwater nonnegative among them, so
\* none of an earlier window; and the getters return the objects of the dict,
\* the ones constraints(mask) constrains.
C14_VariablesFreshPerWindowAndShared ==
    /\ \A k \in DOMAIN variables_dict : variables_dict[k].id[1] = CurrentWindow
    /\ ret.op = "initialize_variables" =>
          /\ VariableIds(variables_dict) \cap VariableIds(ret.old) = {}
          /\ {"steam", "hotwater"} \subseteq DOMAIN variables_dict
          /\ variables_dict["steam"].nonneg /\ variables_dict["hotwater"].nonneg
          /\ variables_dict["steam"].shape = ret.args.size
          /\ variables_dict["hotwater"].shape = ret.args.size
    /\ (ret.op = "get_recovered" /\ ret.err = "none") =>
          /\ ret.out = variables_dict[ret.args.name]
          /\ ret.out.id = <<CurrentWindow, ret.args.name>>
          /\ ret.out.id \in ConstrainedIds

\* the second window's initialize_variables, after a first window had its own
C14_Witness ==
    /\ ret.op = "initialize_variables"
    /\ VariableIds(ret.old) # {}
    /\ CurrentWindow = 2
    /\ variables_dict["steam"].id = <<2, "steam">>

\* ------------------------------------------------------- CHP construction
Num(n) == [st |-> "num", val |-> n]
MissingNum == [st |-> "missing", val |-> 0]

\* the params dict handed to CHP.__init__: a required scalar or an optional
\* series may be missing from it
ChpParamDicts ==
    [electric_ramp_rate : {MissingNum, Num(1)},
     electric_heat_ratio : {MissingNum} \cup {Num(n) : n \in 1..MaxRatio},
     max_steam_ratio : {MissingNum} \cup {Num(n) : n \in 0..MaxRatio},
     site_steam_load : {Absent, NoneV, Some(Series(1))},
     site_hotwater_load : {Absent, NoneV, Some(Series(2))}]

\* params[key] read with .get for max_steam_ratio
FirstKeyErrorLenient(params) ==
    IF params.electric_ramp_rate.st = "missing" THEN "electric_ramp_rate"
    ELSE IF params.electric_heat_ratio.st = "missing" THEN "electric_heat_ratio"
    ELSE "none"

\* the first params[key] of lines 60-62 that raises KeyError, "none" if none does
FirstKeyError(params) ==
    IF params.electric_ramp_rate.st = "missing" THEN "electric_ramp_rate"
    ELSE IF params.electric_heat_ratio.st = "missing" THEN "electric_heat_ratio"
    ELSE IF params.max_steam_ratio.st = "missing" THEN "max_steam_ratio"
    ELSE "none"

\* params.get(key): None when the key is missing
DictGet(v) == IF v.st = "absent" THEN NoneV ELSE v

\* the attributes CHP.__init__ sets
ChpObject(params) ==
    [tag |-> "CHP", is_hot |-> TRUE,
     electric_ramp_rate |-> params.electric_ramp_rate,
     electric_heat_ratio |-> params.electric_heat_ratio,
     max_steam_ratio |-> params.max_steam_ratio,
     site_steam_load |-> DictGet(params.site_steam_load),
     site_hotwater_load |-> DictGet(params.site_hotwater_load)]

\* CHP.__init__
ChpInit ==
    /\ ret.op = "none"
    /\ der_list = <<>>
    /\ \E params \in ChpParamDicts :
         IF FirstKeyError(params) # "none"
         THEN /\ ret' = [op |-> "chp_init", args |-> [params |-> params],
                         err |-> "KeyError", key |-> FirstKeyError(params)]
              /\ UNCHANGED der_list
         ELSE /\ ret' = [op |-> "chp_init", args |-> [params |-> params],
                         err |-> "none", key |-> "none"]
              /\ der_list' = <<ChpObject(params)>>
    /\ UNCHANGED <<active_ders, site_load, variables_dict>>

InitChpInit ==
    /\ der_list = <<>>
    /\ active_ders = <<>>
    /\ site_load = [c \in Channels |-> NoneV]
    /\ variables_dict = <<>>
    /\ ret = NoRet

NextChpInit == ChpInit \/ Return

SpecChpInit == InitChpInit /\ [][NextChpInit]_vars

\* ----------------------------------------------------------------- C15
RequiredKeys == {"electric_ramp_rate", "electric_heat_ratio", "max_steam_ratio"}

LacksRequired(params) == \E k \in RequiredKeys : params[k].st = "missing"

\* an object that exists holds its three scalars; the optional loads are the
\* series given or None
ChpWellFormed(chp) ==
    /\ \A k \in RequiredKeys : chp[k].st = "num"
    /\ chp.site_steam_load.st \in {"none", "series"}
    /\ chp.site_hotwater_load.st \in {"none", "series"}

\* C15 as stated: a params dict lacking a required scalar fails at
\* construction with a Configuration error (the repository's ParameterError);
\* one lacking only optional loads succeeds with them None.
C15_MissingRequiredIsConfigurationError ==
    /\ \A i \in DOMAIN der_list : ChpWellFormed(der_list[i])
    /\ ret.op = "chp_init" =>
          IF LacksRequired(ret.args.params)
          THEN ret.err = "ParameterError" /\ der_list = <<>>
          ELSE ret.err = "none" /\ Len(der_list) = 1

\* C15 amended: a params dict lacking a required scalar fails at construction,
\* with the KeyError of the first missing key, and no object exists that could
\* fail later; one lacking only optional loads succeeds with the attribute None.
C15_MissingRequiredIsKeyErrorAtConstruction ==
    /\ \A i \in DOMAIN der_list : ChpWellFormed(der_list[i])
    /\ ret.op = "chp_init" =>
          LET params == ret.args.params
          IN  IF LacksRequired(params)
              THEN /\ ret.err = "KeyError"
                   /\ ret.key \in RequiredKeys /\ params[ret.key].st = "missing"
                   /\ der_list = <<>>
              ELSE /\ ret.err = "none"
                   /\ Len(der_list) = 1
                   /\ \A k \in RequiredKeys : der_list[1][k] = params[k]
                   /\ params.site_steam_load.st = "absent"
                         => der_list[1].site_steam_load = NoneV
                   /\ params.site_hotwater_load.st = "absent"
                         => der_list[1].site_hotwater_load = NoneV
                   /\ params.site_steam_load.st # "absent"
                         => der_list[1].site_steam_load = params.site_steam_load
                   /\ params.site_hotwater_load.st # "absent"
                         => der_list[1].site_hotwater_load = params.site_hotwater_load

\* a construction that failed on the last required scalar alone
C15_Witness ==
    /\ ret.op = "chp_init" /\ ret.err = "KeyError" /\ ret.key = "max_steam_ratio"
    /\ ret.args.params.electric_ramp_rate.st = "num"
    /\ ret.args.params.site_steam_load.st = "absent"
    /\ der_list = <<>>

\* ------------------------------------------------------ test comparisons
MaxActual == 2
Percent == 100
ErrorBounds == {0, 50, 100}
\* a Python float, or the numpy float64 a DataFrame cell holds
NumberKinds == {"float", "float64"}

Abs(x) == IF x < 0 THEN -x ELSE x

\* diff / actual <= error_bound / 100 over the rationals, actual # 0
RatioWithinBound(diff, actual, error_bound) ==
    IF actual > 0 THEN Percent * diff <= error_bound * actual
    ELSE Percent * diff >= error_bound * actual

\* the outcome of assert_within_error_bound
ErrorBoundOutcome(kind, actual, test_value, error_bound) ==
    LET diff == Abs(actual - test_value)
    IN  IF diff = 0 THEN "pass"
        ELSE IF actual = 0
             THEN IF kind = "float" THEN "ZeroDivisionError" ELSE "AssertionError"
             ELSE IF RatioWithinBound(diff, actual, error_bound) THEN "pass"
                  ELSE "AssertionError"

AssertWithinErrorBound ==
    /\ ret.op = "none"
    /\ \E kind \in NumberKinds, actual \in -MaxActual..MaxActual,
          test_value \in -MaxActual..MaxActual, error_bound \in ErrorBounds :
         ret' = [op |-> "assert_within_error_bound",
                 args |-> [kind |-> kind, actual |-> actual, test_value |-> test_value,
                           error_bound |-> error_bound],
                 outcome |-> ErrorBoundOutcome(kind, actual, test_value, error_bound)]
    /\ UNCHANGED <<der_list, active_ders, site_load, variables_dict>>

InitTest ==
    /\ der_list = <<>>
    /\ active_ders = <<>>
    /\ site_load = [c \in Channels |-> NoneV]
    /\ variables_dict = <<>>
    /\ ret = NoRet

NextTest == AssertWithinErrorBound \/ Return

SpecTest == InitTest /\ [][NextTest]_vars

\* ----------------------------------------------------------------- C16
\* C16 as stated: the call passes iff |actual - test_value| <= |actual| *
\* error_bound / 100, whatever the sign of actual, and a value outside the
\* band is an assertion failure, no other error.
C16_PassesIffWithinBandOfAbsActual ==
    ret.op = "assert_within_error_bound" =>
        /\ ret.outcome = "pass" <=>
              Percent * Abs(ret.args.actual - ret.args.test_value)
                  <= Abs(ret.args.actual) * ret.args.error_bound
        /\ ret.outcome \in {"pass", "AssertionError"}

====
